---- MODULE Spec2Model ----
(***************************************************************************)
(* Model of lib/shared/utils.js: makeFlatStartCaseObject and               *)
(* hideAbsolutePathsInObject, together with the library functions they     *)
(* call (lodash startCase / deepMapValues, deep-map-keys, flat, path).     *)
(*                                                                         *)
(* A JavaScript string is a sequence of one-character strings.  A value is *)
(* a tagged record [t, v]: t names the JavaScript type, v is the payload.  *)
(* A plain object is the sequence of its [k, v] entries in enumeration     *)
(* order, with pairwise different keys.                                    *)
(***************************************************************************)
EXTENDS Integers, Sequences, FiniteSets, TLC

VARIABLES
    platform,   \* the platform whose path module is loaded: "posix" or "win32"
    input,      \* the argument handed to the exported function
    pc,         \* "idle", "flat" (makeFlatStartCaseObject returned),
                \* "hidden" (hideAbsolutePathsInObject returned), "rehidden"
    output,     \* the value returned by the first call
    output2     \* the value returned by hideAbsolutePathsInObject(output)

vars == <<platform, input, pc, output, output2>>

----------------------------------------------------------------------------
(* Values *)

Undefined == [t |-> "undefined", v |-> <<>>]
Null      == [t |-> "null", v |-> <<>>]
Num(n)    == [t |-> "number", v |-> <<n>>]
Bool(b)   == [t |-> "boolean", v |-> <<b>>]
Str(s)    == [t |-> "string", v |-> s]
Arr(es)   == [t |-> "array", v |-> es]
Obj(es)   == [t |-> "object", v |-> es]
Entry(key, val) == [k |-> key, v |-> val]

isUndefined(x) == x.t = "undefined"
isString(x)    == x.t = "string"
isArray(x)     == x.t = "array"
isPlainObject(x) == x.t = "object"
\* _.isObject: true of arrays and objects, false of null and the primitives
isObject(x)    == x.t \in {"array", "object"}

\* Object.keys(o).length
NumKeys(o) == Len(o.v)

HasKey(es, key) == \E i \in 1..Len(es) : es[i].k = key

\* o[key] = val: an existing property keeps its place, a new one goes last
Put(es, key, val) ==
    IF HasKey(es, key)
    THEN [i \in 1..Len(es) |-> IF es[i].k = key THEN Entry(key, val) ELSE es[i]]
    ELSE Append(es, Entry(key, val))

----------------------------------------------------------------------------
(* Characters *)

\* the ASCII letters and digits the model's strings are written with
LowerSeq == <<"a", "b", "c", "d", "e", "v">>
UpperSeq == <<"A", "B", "C", "D", "E", "V">>

LowerChars == {LowerSeq[i] : i \in 1..Len(LowerSeq)}
UpperChars == {UpperSeq[i] : i \in 1..Len(UpperSeq)}
DigitChars == {"1", "2"}

isLower(c) == c \in LowerChars
isUpper(c) == c \in UpperChars
isDigit(c) == c \in DigitChars
\* every other ASCII character separates words
isBreak(c) == ~isLower(c) /\ ~isUpper(c) /\ ~isDigit(c)

toUpper(c) ==
    IF isLower(c) THEN UpperSeq[CHOOSE i \in 1..Len(LowerSeq) : LowerSeq[i] = c]
    ELSE c

\* s.slice(from - 1, to): characters from..to of s, 1-based, inclusive
Slice(s, from, to) == IF to < from THEN <<>> ELSE SubSeq(s, from, to)

\* _.startsWith(s, prefix)
startsWith(s, prefix) ==
    /\ Len(prefix) <= Len(s)
    /\ SubSeq(s, 1, Len(prefix)) = prefix

\* "abc".join(" ") over a sequence of strings
RECURSIVE Join(_, _)
Join(strs, sep) ==
    IF Len(strs) = 0 THEN <<>>
    ELSE IF Len(strs) = 1 THEN strs[1]
    ELSE strs[1] \o sep \o Join(Tail(strs), sep)

----------------------------------------------------------------------------
(* lodash: _.startCase(key) *)

\* the last index j >= i with every character of s[i..j] in the set cls
RunEnd(s, i, cls) ==
    CHOOSE j \in i..Len(s) :
        /\ \A n \in i..j : s[n] \in cls
        /\ (j = Len(s) \/ s[j + 1] \notin cls)

\* The end of the word that reUnicodeWord matches at i, for s[i] a letter or
\* a digit: [Upper]?[lower]+, or a run of capitals that stops before a
\* capital followed by lower case, or a run of digits.
WordEnd(s, i) ==
    IF isDigit(s[i]) THEN RunEnd(s, i, DigitChars)
    ELSE IF isLower(s[i]) THEN RunEnd(s, i, LowerChars)
    ELSE IF i < Len(s) /\ isLower(s[i + 1]) THEN RunEnd(s, i + 1, LowerChars)
    ELSE LET j == RunEnd(s, i, UpperChars)
         IN  IF j < Len(s) /\ isLower(s[j + 1]) THEN j - 1 ELSE j

\* _.words(s) from position i on
RECURSIVE wordsFrom(_, _)
wordsFrom(s, i) ==
    IF i > Len(s) THEN <<>>
    ELSE IF isBreak(s[i]) THEN wordsFrom(s, i + 1)
    ELSE LET j == WordEnd(s, i)
         IN  <<Slice(s, i, j)>> \o wordsFrom(s, j + 1)

words(s) == wordsFrom(s, 1)

\* _.upperFirst(word)
upperFirst(w) == IF Len(w) = 0 THEN w ELSE <<toUpper(w[1])>> \o Tail(w)

RECURSIVE mapUpperFirst(_)
mapUpperFirst(ws) ==
    IF Len(ws) = 0 THEN <<>>
    ELSE <<upperFirst(ws[1])>> \o mapUpperFirst(Tail(ws))

\* every word with its first letter in upper case, joined by single spaces
startCase(s) == Join(mapUpperFirst(words(s)), <<" ">>)

----------------------------------------------------------------------------
(* makeFlatStartCaseObject *)

\* /^[A-Z_]+$/.test(key)
regexTest(key) ==
    /\ Len(key) >= 1
    /\ \A i \in 1..Len(key) : isUpper(key[i]) \/ key[i] = "_"

\* transformKey with the underscore left out of the pattern: /^[A-Z]+$/
transformKeyCapitalsOnly(key) ==
    IF Len(key) >= 1 /\ \A i \in 1..Len(key) : isUpper(key[i])
    THEN key ELSE startCase(key)

\* the key callback handed to deepMapKeys
transformKey(key) == IF regexTest(key) THEN key ELSE startCase(key)

\* deep-map-keys: arrays are mapped element by element, objects get every key
\* renamed and every value mapped, anything else is returned as it is
RECURSIVE deepMapKeys(_), mapObject(_, _, _), mapArrayKeys(_)
mapObject(es, i, result) ==
    IF i > Len(es) THEN result
    ELSE mapObject(es, i + 1,
                   Put(result, transformKey(es[i].k), deepMapKeys(es[i].v)))

mapArrayKeys(es) ==
    IF Len(es) = 0 THEN <<>>
    ELSE <<deepMapKeys(es[1])>> \o mapArrayKeys(Tail(es))

\* deepMapKeys that returns arrays as they are
deepMapKeysObjectsOnly(x) ==
    IF isPlainObject(x) THEN Obj(mapObject(x.v, 1, <<>>)) ELSE x

deepMapKeys(x) ==
    IF isArray(x) THEN Arr(mapArrayKeys(x.v))
    ELSE IF isPlainObject(x) THEN Obj(mapObject(x.v, 1, <<>>))
    ELSE x

\* flat: step(object, prev) over the entries from i on, writing into out.
\* With safe: true an array is a leaf; an object with no keys is a leaf too.
\* step that forgets the path so far: every leaf goes under its own key
RECURSIVE stepOwnKey(_, _, _, _)
stepOwnKey(es, prev, i, out) ==
    IF i > Len(es) THEN out
    ELSE stepOwnKey(es, prev, i + 1,
                    IF isPlainObject(es[i].v) /\ NumKeys(es[i].v) > 0
                    THEN stepOwnKey(es[i].v.v, es[i].k, 1, out)
                    ELSE Put(out, es[i].k, es[i].v))

RECURSIVE step(_, _, _, _)
step(es, prev, i, out) ==
    IF i > Len(es) THEN out
    ELSE LET key    == es[i].k
             value  == es[i].v
             newKey == IF prev # <<>> THEN prev \o <<" ">> \o key ELSE key
         IN  step(es, prev, i + 1,
                  IF isPlainObject(value) /\ NumKeys(value) > 0
                  THEN step(value.v, newKey, 1, out)
                  ELSE Put(out, newKey, value))

\* flatten(target, { delimiter: ' ', safe: true })
flatten(target) == Obj(step(target.v, <<>>, 1, <<>>))

RECURSIVE makeFlatStartCaseObject(_), mapProperties(_)
\* mapProperties without the test that the property is an object
RECURSIVE mapPropertiesAll(_)
mapPropertiesAll(es) ==
    IF Len(es) = 0 THEN <<>>
    ELSE <<makeFlatStartCaseObject(es[1])>> \o mapPropertiesAll(Tail(es))

mapProperties(es) ==
    IF Len(es) = 0 THEN <<>>
    ELSE <<IF isObject(es[1]) THEN makeFlatStartCaseObject(es[1]) ELSE es[1]>>
         \o mapProperties(Tail(es))

\* makeFlatStartCaseObject without the test for undefined
makeFlatStartCaseObjectNoUndefined(object) ==
    IF ~isObject(object) THEN Obj(<<Entry(<<"V", "a", "l", "u", "e">>, object)>>)
    ELSE IF isArray(object) THEN Arr(mapProperties(object.v))
    ELSE flatten(deepMapKeys(object))

makeFlatStartCaseObject(object) ==
    IF isUndefined(object) THEN object
    ELSE IF ~isObject(object) THEN Obj(<<Entry(<<"V", "a", "l", "u", "e">>, object)>>)
    ELSE IF isArray(object) THEN Arr(mapProperties(object.v))
    ELSE flatten(deepMapKeys(object))

----------------------------------------------------------------------------
(* path.isAbsolute, path.basename *)

isPathSeparator(c) == c = "/" \/ c = "\\"
isWindowsDeviceRoot(c) == isLower(c) \/ isUpper(c)

posixIsAbsolute(p) == Len(p) > 0 /\ p[1] = "/"

win32IsAbsolute(p) ==
    /\ Len(p) > 0
    /\ \/ isPathSeparator(p[1])
       \/ /\ isWindowsDeviceRoot(p[1])
          /\ Len(p) > 2
          /\ p[2] = ":"
          /\ isPathSeparator(p[3])

\* The scan of basename from the end of p down to index lo: end is 0 until
\* the first non-separator is seen; the result is <<start, end>>, 1-based
\* and inclusive of end.
\* scanBase with start = i in place of start = i + 1
RECURSIVE scanBaseKeepsSeparator(_, _, _, _, _, _)
scanBaseKeepsSeparator(p, seps, i, lo, start, end) ==
    IF i < lo THEN <<start, end>>
    ELSE IF p[i] \in seps
         THEN IF end # 0 THEN <<i, end>>
              ELSE scanBaseKeepsSeparator(p, seps, i - 1, lo, start, end)
         ELSE scanBaseKeepsSeparator(p, seps, i - 1, lo, start,
                                     IF end = 0 THEN i ELSE end)

RECURSIVE scanBase(_, _, _, _, _, _)
scanBase(p, seps, i, lo, start, end) ==
    IF i < lo THEN <<start, end>>
    ELSE IF p[i] \in seps
         THEN IF end # 0 THEN <<i + 1, end>>
              ELSE scanBase(p, seps, i - 1, lo, start, end)
         ELSE scanBase(p, seps, i - 1, lo, start, IF end = 0 THEN i ELSE end)

posixBasename(p) ==
    LET r == scanBase(p, {"/"}, Len(p), 1, 1, 0)
    IN  IF r[2] = 0 THEN <<>> ELSE Slice(p, r[1], r[2])

win32Basename(p) ==
    LET lo == IF Len(p) >= 2 /\ isWindowsDeviceRoot(p[1]) /\ p[2] = ":"
              THEN 3 ELSE 1
        r  == scanBase(p, {"/", "\\"}, Len(p), lo, lo, 0)
    IN  IF r[2] = 0 THEN <<>> ELSE Slice(p, r[1], r[2])

isAbsolute(pf, p) == IF pf = "win32" THEN win32IsAbsolute(p) ELSE posixIsAbsolute(p)

\* the directory part taken in place of the last segment
basenameAsDirname(pf, p) ==
    LET b == IF pf = "win32" THEN win32Basename(p) ELSE posixBasename(p)
        n == CHOOSE m \in 0..Len(p) :
                 /\ \E e \in m..Len(p) : Slice(p, m + 1, e) = b
                 /\ \A m2 \in (m + 1)..Len(p) :
                        ~\E e \in m2..Len(p) : Slice(p, m2 + 1, e) = b
    IN  IF b = <<>> THEN p ELSE Slice(p, 1, n)

basename(pf, p)   == IF pf = "win32" THEN win32Basename(p) ELSE posixBasename(p)

----------------------------------------------------------------------------
(* hideAbsolutePathsInObject *)

DevPrefix  == <<"/", "d", "e", "v", "/">>
Win32DevicePrefix == <<"\\", "\\", ".", "\\">>

\* hideValue with the absolute-path test made before the device test
hideValueAbsoluteFirst(pf, value) ==
    IF ~isString(value) THEN value
    ELSE IF isAbsolute(pf, value.v) THEN Str(basename(pf, value.v))
    ELSE value

\* the value callback handed to _.deepMapValues
hideValue(pf, value) ==
    IF ~isString(value) THEN value
    ELSE IF startsWith(value.v, DevPrefix) \/ startsWith(value.v, Win32DevicePrefix)
         THEN value
    ELSE IF isAbsolute(pf, value.v) THEN Str(basename(pf, value.v)) ELSE value

\* lodash-deep: _.deepMapValues(object, callback)
RECURSIVE deepMapValues(_, _), mapElements(_, _), mapValues(_, _)
\* mapElements that leaves the elements as they are
mapElementsShallow(pf, es) == es

\* mapValues that hands the keys to the callback too
RECURSIVE mapValuesAndKeys(_, _)
mapValuesAndKeys(pf, es) ==
    IF Len(es) = 0 THEN <<>>
    ELSE <<Entry(hideValue(pf, Str(es[1].k)).v, deepMapValues(pf, es[1].v))>>
         \o mapValuesAndKeys(pf, Tail(es))

mapElements(pf, es) ==
    IF Len(es) = 0 THEN <<>>
    ELSE <<deepMapValues(pf, es[1])>> \o mapElements(pf, Tail(es))

mapValues(pf, es) ==
    IF Len(es) = 0 THEN <<>>
    ELSE <<Entry(es[1].k, deepMapValues(pf, es[1].v))>> \o mapValues(pf, Tail(es))

deepMapValues(pf, object) ==
    IF isArray(object) THEN Arr(mapElements(pf, object.v))
    ELSE IF isPlainObject(object) THEN Obj(mapValues(pf, object.v))
    ELSE hideValue(pf, object)

hideAbsolutePathsInObject(pf, object) == deepMapValues(pf, object)

----------------------------------------------------------------------------
(* The arguments the exported functions are called with *)

\* the weight of a key-tree argument: 1 + Len(key), summed over its entries
MaxKeyWeight == 6
\* the number of array elements and object entries of a mixed argument
MaxSeqSize == 4
\* the same for an argument of hideAbsolutePathsInObject, plus the number of
\* characters its strings have after their prefixes
MaxHideSize == 3

\* all strings of length n over the characters chars
RECURSIVE StringsOfLen(_, _)
StringsOfLen(chars, n) ==
    IF n = 0 THEN {<<>>}
    ELSE {<<c>> \o s : c \in chars, s \in StringsOfLen(chars, n - 1)}

StringsUpTo(chars, n) == UNION {StringsOfLen(chars, m) : m \in 0..n}

\* the i-th child of an array or an object
Child(x, i) == IF isArray(x) THEN x.v[i] ELSE x.v[i].v

\* 1 for every array element, 1 + perChar * Len(key) for every object entry
RECURSIVE Weight(_, _), SumWeights(_, _, _)
SumWeights(x, i, perChar) ==
    IF i > Len(x.v) THEN 0
    ELSE 1 + (IF isArray(x) THEN 0 ELSE perChar * Len(x.v[i].k))
           + Weight(Child(x, i), perChar) + SumWeights(x, i + 1, perChar)

Weight(x, perChar) == IF isObject(x) THEN SumWeights(x, 1, perChar) ELSE 0

\* the paths (child indices from the root) of all the values in x
RECURSIVE AllPaths(_)
AllPaths(x) ==
    IF ~isObject(x) THEN {<<>>}
    ELSE {<<>>} \cup UNION { {<<i>> \o p : p \in AllPaths(Child(x, i))}
                             : i \in 1..Len(x.v) }

RECURSIVE NodeAt(_, _)
NodeAt(x, path) == IF path = <<>> THEN x ELSE NodeAt(Child(x, path[1]), Tail(path))

ContainerPaths(x) == {p \in AllPaths(x) : isObject(NodeAt(x, p))}
StringPaths(x)    == {p \in AllPaths(x) : isString(NodeAt(x, p))}

\* x with the value at path replaced by val
RECURSIVE ReplaceAt(_, _, _)
ReplaceAt(x, path, val) ==
    IF path = <<>> THEN val
    ELSE LET i   == path[1]
             sub == ReplaceAt(Child(x, i), Tail(path), val)
         IN  IF isArray(x)
             THEN Arr([x.v EXCEPT ![i] = sub])
             ELSE Obj([x.v EXCEPT ![i] = Entry(x.v[i].k, sub)])

\* x with val (under key, in an object) added last to the container at path
AppendAt(x, path, key, val) ==
    LET c == NodeAt(x, path)
    IN  ReplaceAt(x, path, IF isArray(c) THEN Arr(Append(c.v, val))
                           ELSE Obj(Append(c.v, Entry(key, val))))

\* Key trees: objects nested in objects only, every key over KeyChars.  They
\* exercise the renaming of keys and the flattening.
KeyChars == {"a", "A", "_"}
KeyLeaves == {Undefined, Num(1), Num(2), Obj(<<>>)}
Scalars == {Undefined, Null, Num(1), Bool(TRUE), Str(<<"a">>)}

\* Mixed trees: arrays and objects nested in each other, over two keys.
SeqKeys == {<<"a", "B">>, <<"A", "_">>}
SeqLeaves == {Undefined, Null, Num(1), Arr(<<>>), Obj(<<>>)}

\* Strings for hideAbsolutePathsInObject: a prefix followed by a few more
\* characters.  The one key is itself written like an absolute path.
Platforms == {"posix", "win32"}
PathChars == {"a", "/", "\\"}
PathPrefixes ==
    { <<>>, <<"/">>, <<"/", "a", "/">>, <<"/", "d", "e", "v">>, DevPrefix,
      Win32DevicePrefix, <<"C", ":", "\\">>, <<"C", ":">>, <<"\\">> }
HideKeys == {<<"/", "a">>}
HideLeaves ==
    {Undefined, Null, Num(1), Bool(FALSE), Arr(<<>>), Obj(<<>>)}
        \cup {Str(prefix) : prefix \in PathPrefixes}

\* the number of characters of s after the longest prefix it starts with
StrWeight(s) ==
    LET lens == {Len(prefix) : prefix \in {q \in PathPrefixes : startsWith(s, q)}}
    IN  Len(s) - (CHOOSE n \in lens : \A m \in lens : m <= n)

RECURSIVE SumStrWeights(_, _)
SumStrWeights(x, paths) ==
    IF paths = {} THEN 0
    ELSE LET p == CHOOSE q \in paths : TRUE
         IN  StrWeight(NodeAt(x, p).v) + SumStrWeights(x, paths \ {p})

HideWeight(x) == Weight(x, 0) + SumStrWeights(x, StringPaths(x))

----------------------------------------------------------------------------
(* The caller *)

NoOutput ==
    /\ pc = "idle"
    /\ output = Undefined
    /\ output2 = Undefined

InitKeys ==
    /\ platform = "posix"
    /\ input \in Scalars \cup {Obj(<<>>)}
    /\ NoOutput

InitSeq ==
    /\ platform = "posix"
    /\ input \in SeqLeaves
    /\ NoOutput

InitHide ==
    /\ platform \in Platforms
    /\ input \in HideLeaves
    /\ NoOutput

\* the caller adds the property key: val to one of the objects of a key tree
AddKeyEntry ==
    /\ pc = "idle"
    /\ \E path \in ContainerPaths(input) :
         \E key \in StringsUpTo(KeyChars, MaxKeyWeight - 1 - Weight(input, 1)) :
            \E val \in KeyLeaves :
               /\ ~HasKey(NodeAt(input, path).v, key)
               /\ input' = AppendAt(input, path, key, val)
    /\ UNCHANGED <<platform, pc, output, output2>>

\* the caller pushes val onto one of the arrays of a mixed tree
AddElement ==
    /\ pc = "idle"
    /\ Weight(input, 0) < MaxSeqSize
    /\ \E path \in ContainerPaths(input) :
         \E val \in SeqLeaves :
            /\ isArray(NodeAt(input, path))
            /\ input' = AppendAt(input, path, <<>>, val)
    /\ UNCHANGED <<platform, pc, output, output2>>

\* the caller adds the property key: val to one of the objects of a mixed tree
AddEntry ==
    /\ pc = "idle"
    /\ Weight(input, 0) < MaxSeqSize
    /\ \E path \in ContainerPaths(input) :
         \E key \in SeqKeys :
            \E val \in SeqLeaves :
               /\ isPlainObject(NodeAt(input, path))
               /\ ~HasKey(NodeAt(input, path).v, key)
               /\ input' = AppendAt(input, path, key, val)
    /\ UNCHANGED <<platform, pc, output, output2>>

\* the caller pushes val onto an array, or adds the property key: val to an
\* object, of the argument of hideAbsolutePathsInObject
AddHideValue ==
    /\ pc = "idle"
    /\ HideWeight(input) < MaxHideSize
    /\ \E path \in ContainerPaths(input) :
         \E key \in HideKeys :
            \E val \in HideLeaves :
               /\ isPlainObject(NodeAt(input, path))
                    => ~HasKey(NodeAt(input, path).v, key)
               /\ input' = AppendAt(input, path, key, val)
    /\ UNCHANGED <<platform, pc, output, output2>>

\* the caller lengthens one of the strings by one character
AppendChar ==
    /\ pc = "idle"
    /\ HideWeight(input) < MaxHideSize
    /\ \E path \in StringPaths(input) :
         \E c \in PathChars :
            input' = ReplaceAt(input, path, Str(Append(NodeAt(input, path).v, c)))
    /\ UNCHANGED <<platform, pc, output, output2>>

\* output = makeFlatStartCaseObject(input)
MakeFlat ==
    /\ pc = "idle"
    /\ output' = makeFlatStartCaseObject(input)
    /\ pc' = "flat"
    /\ UNCHANGED <<platform, input, output2>>

\* output = hideAbsolutePathsInObject(input)
Hide ==
    /\ pc = "idle"
    /\ output' = hideAbsolutePathsInObject(platform, input)
    /\ pc' = "hidden"
    /\ UNCHANGED <<platform, input, output2>>

\* output2 = hideAbsolutePathsInObject(output)
HideAgain ==
    /\ pc = "hidden"
    /\ output2' = hideAbsolutePathsInObject(platform, output)
    /\ pc' = "rehidden"
    /\ UNCHANGED <<platform, input, output>>

NextKeys == AddKeyEntry \/ MakeFlat
NextSeq  == AddElement \/ AddEntry \/ MakeFlat
NextHide == AddHideValue \/ AppendChar \/ Hide \/ HideAgain

SpecKeys == InitKeys /\ [][NextKeys]_vars
SpecSeq  == InitSeq /\ [][NextSeq]_vars
SpecHide == InitHide /\ [][NextHide]_vars

----------------------------------------------------------------------------
(* Properties of makeFlatStartCaseObject on scalars and on key trees *)

ValueKey == <<"V", "a", "l", "u", "e">>

\* what flat treats as a leaf: anything but an object that has properties
IsLeaf(x) == ~(isPlainObject(x) /\ NumKeys(x) > 0)

\* the leaves of an object with their key paths: the set of <<keys, leaf>>
RECURSIVE KeyPathLeaves(_)
KeyPathLeaves(x) ==
    UNION { IF IsLeaf(x.v[i].v)
            THEN {<<<<x.v[i].k>>, x.v[i].v>>}
            ELSE {<<<<x.v[i].k>> \o l[1], l[2]>> : l \in KeyPathLeaves(x.v[i].v)}
            : i \in 1..Len(x.v) }

\* the key rule of the specification, key by key along a path
MatchesEnvPattern(key) ==
    key # <<>> /\ \A i \in 1..Len(key) : key[i] \in UpperChars \cup {"_"}
RuleSegment(key) == IF MatchesEnvPattern(key) THEN key ELSE startCase(key)
RuleSegments(keys) == [i \in 1..Len(keys) |-> RuleSegment(keys[i])]

\* the segments joined by single spaces
SpaceJoin(segs) == Join(segs, <<" ">>)

\* the same, after the empty segments the path starts with are dropped
RECURSIVE DropEmptyStart(_)
DropEmptyStart(segs) ==
    IF Len(segs) > 1 /\ segs[1] = <<>> THEN DropEmptyStart(Tail(segs)) ELSE segs
PathString(segs) == SpaceJoin(DropEmptyStart(segs))

\* the sequences that take, at every place, the key or its start-case form
SegmentChoices(keys) ==
    {segs \in [1..Len(keys) -> {keys[i] : i \in 1..Len(keys)}
                               \cup {startCase(keys[i]) : i \in 1..Len(keys)}] :
        \A i \in 1..Len(keys) : segs[i] \in {keys[i], startCase(keys[i])}}

EntriesWithKey(o, key) == {i \in 1..Len(o.v) : o.v[i].k = key}

\* o has exactly one entry key: val
HasOneEntry(o, key, val) ==
    /\ Cardinality(EntriesWithKey(o, key)) = 1
    /\ \A i \in EntriesWithKey(o, key) : o.v[i].v = val

\* two keys of one object, anywhere in x, are renamed to the same segment
RECURSIVE HasSiblingClash(_)
HasSiblingClash(x) ==
    /\ isObject(x)
    /\ \/ /\ isPlainObject(x)
          /\ \E i, j \in 1..Len(x.v) :
                i # j /\ RuleSegment(x.v[i].k) = RuleSegment(x.v[j].k)
       \/ \E i \in 1..Len(x.v) : HasSiblingClash(Child(x, i))

\* two leaves of the object x get the same path-string
HasPathClash(x) ==
    \E l1, l2 \in KeyPathLeaves(x) :
        l1[1] # l2[1] /\ PathString(RuleSegments(l1[1])) = PathString(RuleSegments(l2[1]))

Clashes(x) == HasSiblingClash(x) \/ HasPathClash(x)

Flattened == pc = "flat" /\ isPlainObject(input)

\* no key of x, at any depth, is renamed to the empty segment
RECURSIVE NoEmptySegment(_)
NoEmptySegment(x) ==
    isObject(x) =>
        \A i \in 1..Len(x.v) :
            /\ isPlainObject(x) => RuleSegment(x.v[i].k) # <<>>
            /\ NoEmptySegment(Child(x, i))

OutputKeys == {output.v[i].k : i \in 1..Len(output.v)}

\* C2 as claimed: along every leaf's key path a key is its own segment if and
\* only if it is made of capitals and underscores, and is its start-case form
\* otherwise.  Stated for the mappings without a clash and without an empty
\* segment, where it already fails.
C2_VerbatimIffPattern ==
    Flattened /\ ~Clashes(input) /\ NoEmptySegment(input) =>
        \A l \in KeyPathLeaves(input) :
            /\ PathString(RuleSegments(l[1])) \in OutputKeys
            /\ \A i \in 1..Len(l[1]) :
                  RuleSegments(l[1])[i] = l[1][i] <=> MatchesEnvPattern(l[1][i])

\* C2 amended: every output key is the path-string of a leaf whose segments
\* are the key itself for a key made of capitals and underscores and the
\* start-case form for any other key (which may be the key itself); without
\* a clash every leaf has its key in the output
C2_SegmentsByRule ==
    Flattened =>
        /\ OutputKeys \subseteq
              {PathString(RuleSegments(l[1])) : l \in KeyPathLeaves(input)}
        /\ ~Clashes(input) =>
              \A l \in KeyPathLeaves(input) :
                  HasOneEntry(output, PathString(RuleSegments(l[1])), l[2])

\* C2 witness: a key of capitals and underscores kept below a key that is
\* rewritten to a different start-case form
C2_Witness ==
    /\ Flattened
    /\ \E l \in KeyPathLeaves(input) :
          /\ Len(l[1]) = 2
          /\ ~MatchesEnvPattern(l[1][1])
          /\ startCase(l[1][1]) # l[1][1]
          /\ MatchesEnvPattern(l[1][2])
          /\ "_" \in {l[1][2][i] : i \in 1..Len(l[1][2])}
          /\ startCase(l[1][1]) \o <<" ">> \o l[1][2] \in OutputKeys

\* C8: an undefined argument is returned as it is, and any other scalar s
\* (null, number, boolean, string) gives the object { Value: s }
C8_ScalarArgument ==
    pc = "flat" /\ ~isObject(input) =>
        IF isUndefined(input) THEN output = Undefined
        ELSE /\ isPlainObject(output)
             /\ Len(output.v) = 1
             /\ output.v[1] = Entry(ValueKey, input)

\* C8 witness: null has been wrapped
C8_Witness ==
    /\ pc = "flat"
    /\ input = Null
    /\ output = Obj(<<Entry(ValueKey, Null)>>)

----------------------------------------------------------------------------
(* Properties of makeFlatStartCaseObject on arrays *)

\* an object none of whose values is an object with properties
IsFlatMapping(o) == isPlainObject(o) /\ \A i \in 1..Len(o.v) : IsLeaf(o.v[i].v)

\* out is x with every key renamed by the key rule and nothing else changed:
\* the same nesting, the same lengths, the same scalars
RECURSIVE RenamedOnly(_, _)
RenamedOnly(x, out) ==
    IF isArray(x)
    THEN /\ isArray(out)
         /\ Len(out.v) = Len(x.v)
         /\ \A i \in 1..Len(x.v) : RenamedOnly(x.v[i], out.v[i])
    ELSE IF isPlainObject(x)
    THEN /\ isPlainObject(out)
         /\ Len(out.v) = Len(x.v)
         /\ \A i \in 1..Len(x.v) :
               /\ out.v[i].k = RuleSegment(x.v[i].k)
               /\ RenamedOnly(x.v[i].v, out.v[i].v)
    ELSE out = x

\* flat is the object x fully transformed: flat, with one entry per leaf of x
\* under the leaf's path-string
FullyTransformed(x, flat) ==
    /\ IsFlatMapping(flat)
    /\ Len(flat.v) = Cardinality(KeyPathLeaves(x))
    /\ \A l \in KeyPathLeaves(x) :
          \E j \in 1..Len(flat.v) :
              /\ flat.v[j].k = PathString(RuleSegments(l[1]))
              /\ RenamedOnly(l[2], flat.v[j].v)

FlatArray == pc = "flat" /\ isArray(input)

\* C7: a sequence gives a sequence of the same length and order; an element
\* that is a mapping or a sequence is replaced by its own transform, and a
\* scalar element (null and undefined too) is passed through, never wrapped
C7_SequenceElementwise ==
    FlatArray =>
        /\ isArray(output)
        /\ Len(output.v) = Len(input.v)
        /\ \A i \in 1..Len(input.v) :
              LET x == input.v[i]
                  y == output.v[i]
              IN  /\ ~isObject(x) => y = x
                  /\ isObject(x) => y = makeFlatStartCaseObject(x)
                  /\ isArray(x) => isArray(y) /\ Len(y.v) = Len(x.v)
                  /\ isPlainObject(x) => IsFlatMapping(y)

\* C7 witness: a sequence holding undefined or null next to a mapping whose
\* key has been renamed
C7_Witness ==
    /\ FlatArray
    /\ Len(input.v) = 2
    /\ input.v[1] \in {Undefined, Null}
    /\ output.v[1] = input.v[1]
    /\ isPlainObject(input.v[2])
    /\ NumKeys(input.v[2]) = 1
    /\ NumKeys(output.v[2]) = 1
    /\ output.v[2].v[1].k # input.v[2].v[1].k

\* C10: a mapping that is an element of the root sequence is fully transformed
\* (keys renamed, nesting flattened into path-strings); a sequence that is a
\* value inside a mapping stays one leaf under its path-string, with its
\* length, and the mappings in it get their keys renamed and keep their nesting
C10_SequencePlacement ==
    /\ FlatArray =>
          \A i \in 1..Len(input.v) :
              isPlainObject(input.v[i]) => FullyTransformed(input.v[i], output.v[i])
    /\ Flattened =>
          \A l \in KeyPathLeaves(input) :
              isArray(l[2]) =>
                  \E j \in 1..Len(output.v) :
                      /\ output.v[j].k = PathString(RuleSegments(l[1]))
                      /\ isArray(output.v[j].v)
                      /\ Len(output.v[j].v.v) = Len(l[2].v)
                      /\ RenamedOnly(l[2], output.v[j].v)

\* C10 witness: a mapping nested in a mapping in a sequence in a mapping is
\* still nested in the output, under renamed keys
C10_Witness ==
    /\ Flattened
    /\ Len(input.v) = 1
    /\ isArray(input.v[1].v)
    /\ Len(input.v[1].v.v) = 1
    /\ isPlainObject(input.v[1].v.v[1])
    /\ ~IsFlatMapping(input.v[1].v.v[1])
    /\ Len(output.v) = 1
    /\ ~IsFlatMapping(output.v[1].v.v[1])
    /\ output.v[1].v.v[1].v[1].k # input.v[1].v.v[1].v[1].k

----------------------------------------------------------------------------
(* Properties of hideAbsolutePathsInObject *)

Hidden == pc \in {"hidden", "rehidden"}

DevicePrefixed(s) == startsWith(s, DevPrefix) \/ startsWith(s, Win32DevicePrefix)

\* y has the nesting, the lengths and the keys of x
RECURSIVE SameShape(_, _)
SameShape(x, y) ==
    IF isObject(x)
    THEN /\ y.t = x.t
         /\ Len(y.v) = Len(x.v)
         /\ \A i \in 1..Len(x.v) :
               /\ isPlainObject(x) => y.v[i].k = x.v[i].k
               /\ SameShape(Child(x, i), Child(y, i))
    ELSE ~isObject(y)

Separators(pf) == IF pf = "win32" THEN {"/", "\\"} ELSE {"/"}

\* b is the final segment of the path s: free of separators, followed in s
\* by separators only, and preceded by a separator or by nothing but the
\* Windows drive letter and colon; empty only if s names no segment
IsFinalSegment(pf, s, b) ==
    LET lo == IF pf = "win32" /\ Len(s) >= 2 /\ s[2] = ":"
                 /\ s[1] \in LowerChars \cup UpperChars
              THEN 3 ELSE 1
    IN  /\ \A n \in 1..Len(b) : b[n] \notin Separators(pf)
        /\ b = <<>> => \A n \in lo..Len(s) : s[n] \in Separators(pf)
        /\ \E i \in lo..(Len(s) + 1) :
              /\ i + Len(b) - 1 <= Len(s)
              /\ Slice(s, i, i + Len(b) - 1) = b
              /\ \A n \in (i + Len(b))..Len(s) : s[n] \in Separators(pf)
              /\ b # <<>> => (i = lo \/ s[i - 1] \in Separators(pf))

\* the strings of the argument that hideAbsolutePathsInObject is to rewrite
AbsolutePaths ==
    {p \in StringPaths(input) :
        isAbsolute(platform, NodeAt(input, p).v) /\ ~DevicePrefixed(NodeAt(input, p).v)}

\* C3: every string, at any depth through mappings and sequences, that is an
\* absolute path and does not start with a device prefix is replaced by its
\* basename, the final path segment
C3_AbsolutePathToBasename ==
    Hidden =>
        /\ SameShape(input, output)
        /\ \A p \in AbsolutePaths :
              /\ NodeAt(output, p) = Str(basename(platform, NodeAt(input, p).v))
              /\ IsFinalSegment(platform, NodeAt(input, p).v, NodeAt(output, p).v)

\* C3 witness: an absolute path with a directory, held by a mapping in a
\* sequence, has become its last segment
C3_Witness ==
    /\ Hidden
    /\ isArray(input)
    /\ \E p \in AbsolutePaths :
          /\ Len(p) = 2
          /\ isPlainObject(NodeAt(input, <<p[1]>>))
          /\ NodeAt(input, p) = Str(<<"/", "a", "/", "a">>)
          /\ NodeAt(output, p) = Str(<<"a">>)

\* C4: a string that starts with /dev/ or with \\.\ is left as it is, also
\* when it is an absolute path
C4_DevicePathKept ==
    Hidden =>
        /\ SameShape(input, output)
        /\ \A p \in StringPaths(input) :
              DevicePrefixed(NodeAt(input, p).v) => NodeAt(output, p) = NodeAt(input, p)

\* C4 witness: \\.\a, absolute on win32, is kept below the root
C4_Witness ==
    /\ Hidden
    /\ platform = "win32"
    /\ \E p \in StringPaths(input) :
          /\ p # <<>>
          /\ NodeAt(input, p) = Str(Win32DevicePrefix \o <<"a">>)
          /\ isAbsolute(platform, NodeAt(input, p).v)
          /\ NodeAt(output, p) = NodeAt(input, p)

\* C5: the result has the nesting, the lengths and the keys of the argument,
\* and every leaf that is no string, or a string that is no absolute path, is
\* the argument's leaf
C5_ShapeAndOtherLeavesKept ==
    Hidden =>
        /\ SameShape(input, output)
        /\ \A p \in AllPaths(input) :
              LET x == NodeAt(input, p)
              IN  ~isObject(x) /\ (isString(x) => ~isAbsolute(platform, x.v))
                      => NodeAt(output, p) = x

\* C5 witness: a mapping whose key is written like an absolute path and whose
\* value is a relative path is returned with that key and that value
C5_Witness ==
    /\ Hidden
    /\ isPlainObject(input)
    /\ Len(input.v) = 1
    /\ isAbsolute(platform, input.v[1].k)
    /\ input.v[1].v = Str(<<"a", "/">>)
    /\ output = input

\* C6: hideAbsolutePathsInObject applied to its own result returns that result
C6_Idempotent == pc = "rehidden" => output2 = output

\* C6 witness: the first call rewrote a path with two segments, and the
\* second call changed nothing
C6_Witness ==
    /\ pc = "rehidden"
    /\ input = Arr(<<Str(<<"/", "a", "/", "a">>)>>)
    /\ output = Arr(<<Str(<<"a">>)>>)
    /\ output2 = output

\* C9: no string of the result is an absolute path, unless it starts with a
\* device prefix
C9_NoAbsolutePathLeft ==
    Hidden =>
        \A p \in StringPaths(output) :
            isAbsolute(platform, NodeAt(output, p).v)
                => DevicePrefixed(NodeAt(output, p).v)

\* C9 witness: on win32 a path with a drive letter and two kinds of
\* separators has been replaced by a name that is not absolute
C9_Witness ==
    /\ Hidden
    /\ platform = "win32"
    /\ input = Str(<<"C", ":", "\\", "a", "/", "a">>)
    /\ output = Str(<<"a">>)
    /\ ~isAbsolute(platform, output.v)

====
